---------------------------- MODULE Spec2Model ----------------------------
(***************************************************************************)
(* Model of server.js: an Express relay in front of the Daraja (M-PESA)    *)
(* gateway.  Four handlers (/stkpush, /c2b/register, /callback, /token)    *)
(* and the helper getOAuthToken.  Every handler invocation is a coroutine  *)
(* that runs atomically up to its next `await`; the upstream answers are   *)
(* the inputs of the continuation actions.                                 *)
(*                                                                         *)
(* Text that the program transforms (the timestamp, the password) is a     *)
(* sequence of ASCII codes; values that are only passed through (amount,   *)
(* phone, URLs, upstream bodies) are opaque strings.                       *)
(***************************************************************************)
EXTENDS Integers, Sequences, FiniteSets, TLC

-----------------------------------------------------------------------------
(* Bounds of the model                                                     *)

MaxReq == 2

Reqs == 1..MaxReq

-----------------------------------------------------------------------------
(* JavaScript values                                                       *)

\* A property that is absent from a parsed JSON body reads as undefined.
Undefined == "<undefined>"

\* JSON null: the only "no value" a JSON body can carry explicitly.
Null == "<null>"

\* ToBoolean for the string-valued things the code puts on the left of `||`.
Truthy(v) == v # Undefined /\ v # Null /\ v # ""

\* a || b
OrElse(a, b) == IF Truthy(a) THEN a ELSE b

\* Destructuring default `{ x = d } = obj`: d only when x is undefined.
Default(v, d) == IF v = Undefined THEN d ELSE v

-----------------------------------------------------------------------------
(* Text as sequences of ASCII codes                                        *)

Digit(d) == 48 + d

IsDigit(c) == c >= 48 /\ c <= 57

\* Decimal rendering of n in exactly w characters, zero padded
\* (n < 10^w), as Date.prototype.toISOString pads its fields.
Pad(n, w) ==
    LET pow10 == << 1, 10, 100, 1000 >>
    IN  [i \in 1..w |-> Digit((n \div pow10[w - i + 1]) % 10)]

\* s with every character of the set drop removed: s.replace(/[...]/g, '')
Remove(s, drop) == SelectSeq(s, LAMBDA c : c \notin drop)

\* s.slice(0, n)
Slice0(s, n) == SubSeq(s, 1, IF Len(s) < n THEN Len(s) ELSE n)

-----------------------------------------------------------------------------
(* new Date().toISOString() (ECMA-262, Date objects).  A time value is a   *)
(* number of milliseconds since the epoch; it is kept as the pair          *)
(* (Day(t), TimeWithinDay(t)) so that the arithmetic stays in range.       *)

DayFromYear(y) ==
    365 * (y - 1970) + ((y - 1969) \div 4) - ((y - 1901) \div 100)
        + ((y - 1601) \div 400)

IsLeap(y) == (y % 4 = 0 /\ y % 100 # 0) \/ y % 400 = 0

\* YearFromTime: the largest y with DayFromYear(y) <= day
YearFromDay(day) ==
    CHOOSE y \in (1970 + day \div 366)..(1970 + day \div 365) :
        DayFromYear(y) <= day /\ day < DayFromYear(y + 1)

\* First day-within-year of month m (1..13) for a year of the given leapness
MonthStart(m, leap) ==
    LET common == << 0, 31, 59, 90, 120, 151, 181, 212, 243, 273, 304, 334, 365 >>
    IN  IF m <= 2 THEN common[m] ELSE common[m] + (IF leap THEN 1 ELSE 0)

\* MonthFromTime, 1-based as toISOString prints it
MonthFromDay(day) ==
    LET y  == YearFromDay(day)
        dy == day - DayFromYear(y)
    IN  CHOOSE m \in 1..12 :
            MonthStart(m, IsLeap(y)) <= dy /\ dy < MonthStart(m + 1, IsLeap(y))

\* DateFromTime
DateFromDay(day) ==
    LET y == YearFromDay(day)
    IN  day - DayFromYear(y) - MonthStart(MonthFromDay(day), IsLeap(y)) + 1

\* "YYYY-MM-DDTHH:mm:ss.sssZ" for a time value whose year is in 0..9999
ToISOString(t) ==
    LET ms == t.ms
    IN  Pad(YearFromDay(t.day), 4) \o << 45 >> \o Pad(MonthFromDay(t.day), 2)
          \o << 45 >> \o Pad(DateFromDay(t.day), 2) \o << 84 >>
          \o Pad(ms \div 3600000, 2) \o << 58 >>
          \o Pad((ms \div 60000) % 60, 2) \o << 58 >>
          \o Pad((ms \div 1000) % 60, 2) \o << 46 >>
          \o Pad(ms % 1000, 3) \o << 90 >>

\* The characters of the class [-:TZ.]
Separators == { 45, 58, 84, 90, 46 }

\* The timestamp with a character class that misses the 'T'
timestampKeepT(t) == Slice0(Remove(ToISOString(t), Separators \ { 84 }), 14)

\* new Date().toISOString().replace(/[-:TZ.]/g,'').slice(0,14)
timestamp(t) == Slice0(Remove(ToISOString(t), Separators), 14)

-----------------------------------------------------------------------------
(* Buffer.from(text).toString('base64') (RFC 4648, with padding)           *)

\* The base64 alphabet: A-Z a-z 0-9 + /
B64Char(i) ==
    IF i < 26 THEN 65 + i
    ELSE IF i < 52 THEN 97 + (i - 26)
    ELSE IF i < 62 THEN 48 + (i - 52)
    ELSE IF i = 62 THEN 43 ELSE 47

\* Every 3 bytes give 4 characters; a last group of 1 or 2 bytes is filled
\* with zero bits and its unused characters are '='.
Base64(b) ==
    LET n == Len(b)
        byte(i) == IF i <= n THEN b[i] ELSE 0
        char(j) ==
            LET g  == 3 * ((j - 1) \div 4)
                b1 == byte(g + 1)
                b2 == byte(g + 2)
                b3 == byte(g + 3)
                k  == (j - 1) % 4
            IN  IF k = 0 THEN B64Char(b1 \div 4)
                ELSE IF k = 1 THEN B64Char((b1 % 4) * 16 + b2 \div 16)
                ELSE IF k = 2 THEN
                    IF g + 2 > n THEN 61 ELSE B64Char((b2 % 16) * 4 + b3 \div 64)
                ELSE IF g + 3 > n THEN 61 ELSE B64Char(b3 % 64)
    IN  [j \in 1..(4 * ((n + 2) \div 3)) |-> char(j)]

-----------------------------------------------------------------------------
(* process.env, read once at start-up and never written                    *)

\* "174379"
Shortcode174379 == << 49, 55, 52, 51, 55, 57 >>

\* "test", "tests", "testss": passkeys of three lengths, so that the
\* password has each of the three base64 paddings
PasskeyTest == << 116, 101, 115, 116 >>

Passkeys == { PasskeyTest, PasskeyTest \o << 115 >>, PasskeyTest \o << 115, 115 >> }

\* "ck" and "cs"
ConsumerKey == << 99, 107 >>

ConsumerSecret == << 99, 115 >>

SandboxURL == "https://sandbox.safaricom.co.ke"

DefaultCallbackURL == "https://yourdomain.com/callback"

EnvOf(passkey, baseUrl, callbackUrl) ==
    [ CONSUMER_KEY |-> ConsumerKey, CONSUMER_SECRET |-> ConsumerSecret,
      SHORTCODE |-> Shortcode174379, PASSKEY |-> passkey,
      BASE_URL |-> baseUrl, CALLBACK_URL |-> callbackUrl ]

\* The environment of the relay runs
EnvsRelay == { EnvOf(PasskeyTest, Undefined, Undefined) }

\* The environments of the payload runs
EnvsPush ==
    { EnvOf(k, b, c) : k \in Passkeys,
                       b \in { Undefined, "https://api.safaricom.co.ke" },
                       c \in { Undefined, "https://shop.example/callback" } }

-----------------------------------------------------------------------------
(* The system clock read by `new Date()`                                   *)

Civil(y, mo, d, h, mi, s, ms) ==
    [ y |-> y, mo |-> mo, d |-> d, h |-> h, mi |-> mi, s |-> s, ms |-> ms ]

\* Days from 1970-01-01 to the civil date y-mo-d (proleptic Gregorian)
DaysFromCivil(y, mo, d) ==
    LET yy  == IF mo <= 2 THEN y - 1 ELSE y
        era == yy \div 400
        yoe == yy - era * 400
        mp  == IF mo > 2 THEN mo - 3 ELSE mo + 9
        doy == (153 * mp + 2) \div 5 + d - 1
        doe == yoe * 365 + yoe \div 4 - yoe \div 100 + doy
    IN  era * 146097 + doe - 719468

\* The time value the clock holds at the civil instant c
TimeValue(c) ==
    [ day |-> DaysFromCivil(c.y, c.mo, c.d),
      ms  |-> ((c.h * 60 + c.mi) * 60 + c.s) * 1000 + c.ms ]

ClockDates ==
    { << 1970, 1, 1 >>, << 1999, 12, 31 >>, << 2000, 2, 29 >>, << 2000, 3, 1 >>,
      << 2023, 2, 28 >>, << 2024, 1, 1 >>, << 2024, 2, 29 >>, << 2024, 10, 9 >>,
      << 2025, 11, 30 >>, << 2100, 3, 1 >>, << 9999, 12, 31 >> }

ClockTimes ==
    { << 0, 0, 0, 0 >>, << 12, 0, 0, 0 >>, << 9, 5, 7, 45 >>,
      << 23, 59, 59, 999 >>, << 0, 0, 0, 999 >>, << 10, 10, 10, 500 >> }

InstantsPush ==
    { Civil(dt[1], dt[2], dt[3], tm[1], tm[2], tm[3], tm[4]) :
          dt \in ClockDates, tm \in ClockTimes }

InstantsRelay == { Civil(2024, 1, 1, 12, 0, 0, 0) }

-----------------------------------------------------------------------------
(* Inbound request bodies (req.body after bodyParser.json())               *)
(* bodyParser.json() hands the handlers an object: the parsed JSON, or {}   *)
(* when the request carried none; a field that is not there reads as       *)
(* undefined.                                                              *)

StkBody(a, p, ref, desc) ==
    [ amount |-> a, phone |-> p, accountReference |-> ref, description |-> desc ]

StkBodiesRelay == { StkBody("100", "254712345678", Undefined, Undefined) }

StkBodiesPush ==
    { StkBody(a, p, ref, desc) :
          a \in { "100", Undefined },
          p \in { "254712345678", "254700000001" },
          ref \in { Undefined, Null, "INV-7" },
          desc \in { Undefined, Null, "Dinner" } }

C2bBodies ==
    [ confirmationURL : { Undefined, "https://shop.example/confirm" },
      validationURL : { Undefined, "https://shop.example/validate" } ]

CallbackBodies == { "{}", "{Body:{stkCallback:{ResultCode:0}}}" }

NoBody == [ none |-> TRUE ]

-----------------------------------------------------------------------------
(* Upstream answers (what an axios call resolves or rejects with)          *)

\* An AxiosError: err.response is absent when no answer came back.
AxiosErrors ==
    { [ response |-> TRUE, data |-> "{errorCode:401.002.01}",
        message |-> "Request failed with status code 401" ],
      [ response |-> TRUE, data |-> "",
        message |-> "Request failed with status code 500" ],
      [ response |-> FALSE, data |-> Undefined, message |-> "Network Error" ] }

\* The gateway's JSON answer to an accepted push / registration
StkAnswers == { [ CheckoutRequestID |-> "ws_CO_1", ResponseCode |-> "0" ] }

C2bAnswers == { [ ResponseDescription |-> "Success" ] }

\* err.response?.data
ResponseData(err) == IF err.response THEN err.data ELSE Undefined

-----------------------------------------------------------------------------
(* State                                                                   *)

VARIABLES
    env,      \* process.env
    route,    \* route[r]: the path request r came in on ("" before it arrives)
    body,     \* body[r]: req.body
    pc,       \* pc[r]: where the handler of r stands
    token,    \* token[r]: the handler's local `token` (0: not assigned)
    clock,    \* clock[r]: the instant `new Date()` returned to the handler of r
    calls,    \* calls[r]: the outbound axios calls the handler of r has made
    replies,  \* replies[r]: what the upstream answered to them
    resp,     \* resp[r]: the responses written to res
    issued    \* the number of tokens the upstream has handed out

vars == << env, route, body, pc, token, clock, calls, replies, resp, issued >>

NoClock == Civil(0, 0, 0, 0, 0, 0, 0)

InitWith(envs) ==
    /\ env \in envs
    /\ route = [r \in Reqs |-> ""]
    /\ body = [r \in Reqs |-> NoBody]
    /\ pc = [r \in Reqs |-> "idle"]
    /\ token = [r \in Reqs |-> 0]
    /\ clock = [r \in Reqs |-> NoClock]
    /\ calls = [r \in Reqs |-> << >>]
    /\ replies = [r \in Reqs |-> << >>]
    /\ resp = [r \in Reqs |-> << >>]
    /\ issued = 0

Init == InitWith(EnvsRelay)

-----------------------------------------------------------------------------
(* Pieces of the handlers                                                  *)

\* `${BASE_URL || 'https://sandbox.safaricom.co.ke'}`
BaseURL(e) == OrElse(e.BASE_URL, SandboxURL)

\* The axios.get of getOAuthToken
TokenCall(e) ==
    [ method |-> "GET", base |-> BaseURL(e),
      path |-> "/oauth/v1/generate?grant_type=client_credentials",
      basic |-> Base64(e.CONSUMER_KEY \o << 58 >> \o e.CONSUMER_SECRET) ]

\* A module-level token cache that is filled once: the first token any
\* request obtained
BearerCached(tokens, r) ==
    LET held == { tokens[q] : q \in DOMAIN tokens } \ { 0 }
    IN  CHOOSE t \in held : \A u \in held : t <= u

\* The Authorization header of a gateway POST: `Bearer ${token}` with the
\* handler's own local token
Bearer(tokens, r) == tokens[r]

\* axios.post(url, payload, { headers: { Authorization: `Bearer ${token}` } })
GatewayCall(e, path, bearer, payload) ==
    [ method |-> "POST", base |-> BaseURL(e), path |-> path,
      bearer |-> bearer, payload |-> payload ]

\* The defaults applied with `||` instead of a destructuring default
StkLocalsFalsy(b) ==
    [ amount |-> b.amount, phone |-> b.phone,
      accountReference |-> OrElse(b.accountReference, "BOOK"),
      description |-> OrElse(b.description, "Hotel booking") ]

\* const { amount, phone, accountReference = 'BOOK',
\*         description = 'Hotel booking' } = req.body
StkLocals(b) ==
    [ amount |-> b.amount, phone |-> b.phone,
      accountReference |-> Default(b.accountReference, "BOOK"),
      description |-> Default(b.description, "Hotel booking") ]

\* The password with passkey and shortcode in the wrong order
passwordSwapped(e, ts) == Base64(e.PASSKEY \o e.SHORTCODE \o ts)

\* Buffer.from(`${SHORTCODE}${PASSKEY}${timestamp}`).toString('base64')
password(e, ts) == Base64(e.SHORTCODE \o e.PASSKEY \o ts)

\* The two computed fields of the /stkpush payload, tabulated once over the
\* clock readings and environments of the runs:
\*   const timestamp = new Date().toISOString()...      (now: the reading)
\*   const password = Buffer.from(...).toString('base64')
TimestampAt == [now \in InstantsPush \cup InstantsRelay |-> timestamp(TimeValue(now))]

PasswordAt ==
    [e \in EnvsPush \cup EnvsRelay |->
        [now \in InstantsPush \cup InstantsRelay |-> password(e, TimestampAt[now])]]

\* The payload of /stkpush, from the locals l and the clock reading now
StkPayload(e, l, now) ==
    [     BusinessShortCode |-> e.SHORTCODE,
          Password |-> PasswordAt[e][now],
          Timestamp |-> TimestampAt[now],
          TransactionType |-> "CustomerPayBillOnline",
          Amount |-> l.amount,
          PartyA |-> l.phone,
          PartyB |-> e.SHORTCODE,
          PhoneNumber |-> l.phone,
          CallBackURL |-> OrElse(e.CALLBACK_URL, DefaultCallbackURL),
          AccountReference |-> l.accountReference,
          TransactionDesc |-> l.description ]

\* The registration payload with a missing confirmation URL filled in
C2bPayloadDefaulted(e, b) ==
    [ ShortCode |-> e.SHORTCODE,
      ResponseType |-> "Completed",
      ConfirmationURL |-> OrElse(b.confirmationURL, DefaultCallbackURL),
      ValidationURL |-> b.validationURL ]

\* The payload of /c2b/register
C2bPayload(e, b) ==
    [ ShortCode |-> e.SHORTCODE,
      ResponseType |-> "Completed",
      ConfirmationURL |-> b.confirmationURL,
      ValidationURL |-> b.validationURL ]

\* err.response?.data || err.message
ErrorPayload(err) == OrElse(ResponseData(err), err.message)

\* The catch block passing the upstream's status on instead of 500
GatewayErrorResponsePassStatus(err) ==
    [ status |-> IF err.response /\ err.data # "" THEN 401 ELSE 500,
      body |-> [ error |-> ErrorPayload(err) ] ]

\* res.status(500).json({ error: err.response?.data || err.message })
GatewayErrorResponse(err) == [ status |-> 500, body |-> [ error |-> ErrorPayload(err) ] ]

\* res.status(500).json({ error: err.message })
TokenErrorResponse(err) == [ status |-> 500, body |-> [ error |-> err.message ] ]

\* res.json({ data }) instead of res.json(data)
JsonResponseWrapped(data) == [ status |-> 200, body |-> [ data |-> data ] ]

\* res.json(data): the status stays at its default, 200
JsonResponse(data) == [ status |-> 200, body |-> data ]

\* res.status(200).send({ ResultCode: 0, ResultDesc: 'Accepted' })
CallbackResponse == [ status |-> 200, body |-> [ ResultCode |-> 0, ResultDesc |-> "Accepted" ] ]

\* What Express's own error handler writes when it is handed an error
ExpressErrorResponse == [ status |-> 500, body |-> [ html |-> "Internal Server Error" ] ]

\* A handler that writes its response twice
SendTwice(rs, r, response) == [rs EXCEPT ![r] = Append(Append(@, response), response)]

\* Writing one response to res of request r
Send(rs, r, response) == [rs EXCEPT ![r] = Append(@, response)]

-----------------------------------------------------------------------------
(* Steps shared by the handlers that call getOAuthToken                    *)

\* The handler of route p starts on request r with body b and runs up to
\* `await axios.get(...)` inside getOAuthToken.
Begin(r, p, b) ==
    /\ pc[r] = "idle"
    /\ route' = [route EXCEPT ![r] = p]
    /\ body' = [body EXCEPT ![r] = b]
    /\ calls' = [calls EXCEPT ![r] = Append(@, TokenCall(env))]
    /\ pc' = [pc EXCEPT ![r] = "await_token"]
    /\ UNCHANGED << env, token, clock, replies, resp, issued >>

\* The token endpoint answers 200 with a token it has not handed out before;
\* getOAuthToken returns res.data.access_token into the local `token`.
TokenGranted(r) ==
    /\ pc[r] = "await_token"
    /\ issued' = issued + 1
    /\ token' = [token EXCEPT ![r] = issued + 1]
    /\ replies' = [replies EXCEPT ![r] =
                      Append(@, [ ok |-> TRUE, access_token |-> issued + 1 ])]

\* An awaited axios call of r rejects with err; control goes to `catch`.
Rejected(r, err) ==
    /\ pc[r] \in { "await_token", "await_post" }
    /\ replies' = [replies EXCEPT ![r] = Append(@, [ ok |-> FALSE, err |-> err ])]
    /\ pc' = [pc EXCEPT ![r] = "done"]
    /\ UNCHANGED << env, route, body, token, clock, calls, issued >>

\* The awaited axios.post of r resolves with data; res.json(r.data)
Resolved(r, data) ==
    /\ pc[r] = "await_post"
    /\ replies' = [replies EXCEPT ![r] = Append(@, [ ok |-> TRUE, data |-> data ])]
    /\ resp' = Send(resp, r, JsonResponse(data))
    /\ pc' = [pc EXCEPT ![r] = "done"]
    /\ UNCHANGED << env, route, body, token, clock, calls, issued >>

-----------------------------------------------------------------------------
(* app.post('/stkpush')                                                    *)

StkPushBegin(r, bodies) == \E b \in bodies : Begin(r, "/stkpush", b)

\* The token arrives: read the clock, build the payload, POST it.
StkPushToken(r, instants) ==
    /\ route[r] = "/stkpush"
    /\ TokenGranted(r)
    /\ \E now \in instants :
         /\ clock' = [clock EXCEPT ![r] = now]
         /\ calls' = [calls EXCEPT ![r] =
                Append(@, GatewayCall(env, "/mpesa/stkpush/v1/processrequest",
                                      Bearer(token', r),
                                      StkPayload(env, StkLocals(body[r]), now)))]
    /\ pc' = [pc EXCEPT ![r] = "await_post"]
    /\ UNCHANGED << env, route, body, resp >>

StkPushOk(r) ==
    /\ route[r] = "/stkpush"
    /\ \E data \in StkAnswers : Resolved(r, data)

StkPushCatch(r) ==
    /\ route[r] = "/stkpush"
    /\ \E err \in AxiosErrors :
         /\ Rejected(r, err)
         /\ resp' = Send(resp, r, GatewayErrorResponse(err))

-----------------------------------------------------------------------------
(* app.post('/c2b/register')                                               *)

C2bBegin(r) == \E b \in C2bBodies : Begin(r, "/c2b/register", b)

C2bToken(r) ==
    /\ route[r] = "/c2b/register"
    /\ TokenGranted(r)
    /\ calls' = [calls EXCEPT ![r] =
           Append(@, GatewayCall(env, "/mpesa/c2b/v1/registerurl",
                                 Bearer(token', r), C2bPayload(env, body[r])))]
    /\ pc' = [pc EXCEPT ![r] = "await_post"]
    /\ UNCHANGED << env, route, body, clock, resp >>

C2bOk(r) ==
    /\ route[r] = "/c2b/register"
    /\ \E data \in C2bAnswers : Resolved(r, data)

C2bCatch(r) ==
    /\ route[r] = "/c2b/register"
    /\ \E err \in AxiosErrors :
         /\ Rejected(r, err)
         /\ resp' = Send(resp, r, GatewayErrorResponse(err))

-----------------------------------------------------------------------------
(* app.get('/token')                                                       *)

TokenBegin(r) == Begin(r, "/token", NoBody)

TokenOk(r) ==
    /\ route[r] = "/token"
    /\ TokenGranted(r)
    /\ resp' = Send(resp, r, JsonResponse([ access_token |-> token'[r] ]))
    /\ pc' = [pc EXCEPT ![r] = "done"]
    /\ UNCHANGED << env, route, body, clock, calls >>

TokenCatch(r) ==
    /\ route[r] = "/token"
    /\ \E err \in AxiosErrors :
         /\ Rejected(r, err)
         /\ resp' = Send(resp, r, TokenErrorResponse(err))

-----------------------------------------------------------------------------
(* app.post('/callback')                                                   *)

\* What becomes of a request whose async handler threw: Express 4 drops the
\* rejected promise and nothing is ever written; Express 5 hands the error
\* to its error handler.
AfterThrow == { "unhandled", "error_handler" }

\* The handler has no await: it runs to its end in one step.  Line 99 is
\* evaluated first; when it throws, line 102 is not reached.
Callback(r) ==
    /\ pc[r] = "idle"
    /\ \E b \in CallbackBodies, logThrows \in BOOLEAN, after \in AfterThrow :
         /\ route' = [route EXCEPT ![r] = "/callback"]
         /\ body' = [body EXCEPT ![r] = [ json |-> b, logThrows |-> logThrows ]]
         /\ IF ~logThrows
              THEN /\ resp' = Send(resp, r, CallbackResponse)
                   /\ pc' = [pc EXCEPT ![r] = "done"]
              ELSE IF after = "error_handler"
              THEN /\ resp' = Send(resp, r, ExpressErrorResponse)
                   /\ pc' = [pc EXCEPT ![r] = "done"]
              ELSE /\ resp' = resp
                   /\ pc' = [pc EXCEPT ![r] = "threw"]
    /\ UNCHANGED << env, token, clock, calls, replies, issued >>

-----------------------------------------------------------------------------
(* Specifications                                                          *)

\* The relay under concurrent requests on all four routes
Next ==
    \E r \in Reqs :
        \/ StkPushBegin(r, StkBodiesRelay)
        \/ StkPushToken(r, InstantsRelay)
        \/ StkPushOk(r)
        \/ StkPushCatch(r)
        \/ C2bBegin(r)
        \/ C2bToken(r)
        \/ C2bOk(r)
        \/ C2bCatch(r)
        \/ TokenBegin(r)
        \/ TokenOk(r)
        \/ TokenCatch(r)
        \/ Callback(r)

Spec == Init /\ [][Next]_vars

\* Every awaited outbound call eventually completes.
Completion ==
    \A r \in Reqs :
        /\ WF_vars(StkPushToken(r, InstantsRelay) \/ StkPushCatch(r))
        /\ WF_vars(StkPushOk(r) \/ StkPushCatch(r))
        /\ WF_vars(C2bToken(r) \/ C2bCatch(r))
        /\ WF_vars(C2bOk(r) \/ C2bCatch(r))
        /\ WF_vars(TokenOk(r) \/ TokenCatch(r))

SpecLive == Spec /\ Completion

\* One /stkpush request over the whole range of bodies, environments and
\* clock readings
InitPush == InitWith(EnvsPush)

NextPush ==
    \/ StkPushBegin(1, StkBodiesPush)
    \/ StkPushToken(1, InstantsPush)
    \/ StkPushOk(1)
    \/ StkPushCatch(1)

SpecPush == InitPush /\ [][NextPush]_vars

-----------------------------------------------------------------------------
(* Vocabulary of the properties                                            *)

\* The routes whose handlers call the upstream
Relayed == { "/stkpush", "/c2b/register", "/token" }

Forwarding == { "/stkpush", "/c2b/register" }

CallsOf(r, m) == { i \in 1..Len(calls[r]) : calls[r][i].method = m }

Gets(r) == Cardinality(CallsOf(r, "GET"))

Posts(r) == Cardinality(CallsOf(r, "POST"))

\* The token exchange of r has been answered, and with a failure / a token
TokenFailed(r) == Len(replies[r]) >= 1 /\ ~replies[r][1].ok

TokenSucceeded(r) == Len(replies[r]) >= 1 /\ replies[r][1].ok

\* Both the token exchange and the gateway POST of r succeeded
BothSucceeded(r) ==
    Len(replies[r]) = 2 /\ replies[r][1].ok /\ replies[r][2].ok

\* The failure that ended the handler of r
Failure(r) == replies[r][Len(replies[r])].err

Failed(r) == Len(replies[r]) >= 1 /\ ~replies[r][Len(replies[r])].ok

\* The upstream sent a body along with its error answer
HasUpstreamBody(err) == err.response /\ err.data # ""

Unauthorized ==
    [ response |-> TRUE, data |-> "{errorCode:401.002.01}",
      message |-> "Request failed with status code 401" ]

\* Base64 decoding (Buffer.from(text, 'base64')) of a padded text
B64Index(c) ==
    IF c >= 65 /\ c <= 90 THEN c - 65
    ELSE IF c >= 97 /\ c <= 122 THEN c - 97 + 26
    ELSE IF c >= 48 /\ c <= 57 THEN c - 48 + 52
    ELSE IF c = 43 THEN 62 ELSE 63

Base64Decode(s) ==
    LET n    == Len(s)
        pads == Cardinality({ i \in 1..n : s[i] = 61 })
        byte(j) ==
            LET g == 4 * ((j - 1) \div 3)
                a == B64Index(s[g + 1])
                b == B64Index(s[g + 2])
                c == B64Index(s[g + 3])
                d == B64Index(s[g + 4])
                k == (j - 1) % 3
            IN  IF k = 0 THEN a * 4 + b \div 16
                ELSE IF k = 1 THEN (b % 16) * 16 + c \div 4
                ELSE (c % 4) * 64 + d
    IN  [j \in 1..(3 * (n \div 4) - pads) |-> byte(j)]

\* The text YYYYMMDDHHMMSS of the civil instant c
FourteenDigits(c) ==
    Pad(c.y, 4) \o Pad(c.mo, 2) \o Pad(c.d, 2) \o Pad(c.h, 2) \o Pad(c.mi, 2) \o Pad(c.s, 2)

\* The gateway POSTs that /stkpush handlers have issued
PushCalls == { << r, i >> \in Reqs \X (1..2) :
                  route[r] = "/stkpush" /\ i \in CallsOf(r, "POST") }

-----------------------------------------------------------------------------
(* C1: every POST /callback is answered with 200 and exactly               *)
(* {ResultCode: 0, ResultDesc: "Accepted"}, also when the logging step     *)
(* fails; no path ends in an error response or in no response.             *)
C1_CallbackAlwaysAccepted ==
    \A r \in Reqs :
        route[r] = "/callback" => resp[r] = << CallbackResponse >>

(* C2: when the token exchange of a /stkpush request fails, the request is *)
(* answered with 500 and a body that has an `error` field, and no POST to  *)
(* the gateway is issued for it.                                           *)
C2_TokenFailureIs500 ==
    \A r \in Reqs :
        (route[r] = "/stkpush" /\ TokenFailed(r)) =>
            /\ Len(resp[r]) = 1
            /\ resp[r][1].status = 500
            /\ "error" \in DOMAIN resp[r][1].body
            /\ resp[r][1].body.error # Undefined
            /\ Posts(r) = 0

C2_Witness ==
    \E r \in Reqs :
        /\ route[r] = "/stkpush"
        /\ replies[r] = << [ ok |-> FALSE, err |-> Unauthorized ] >>
        /\ Len(resp[r]) = 1
        /\ resp[r][1].status = 500

(* C3: /stkpush and /c2b/register answer 200 with the gateway's JSON body  *)
(* unchanged exactly when both the token exchange and the gateway POST     *)
(* succeeded; in every other case they answer 500 with a body {error}.     *)
C3_SuccessIffBothSucceeded ==
    \A r \in Reqs :
        route[r] \in Forwarding =>
            /\ pc[r] # "done" => resp[r] = << >>
            /\ pc[r] = "done" =>
                 /\ Len(resp[r]) = 1
                 /\ resp[r][1].status \in { 200, 500 }
                 /\ resp[r][1].status = 200 <=> BothSucceeded(r)
                 /\ BothSucceeded(r) => resp[r][1].body = replies[r][2].data
                 /\ ~BothSucceeded(r) => DOMAIN resp[r][1].body = { "error" }

C3_Witness ==
    /\ \E r \in Reqs :
         /\ route[r] = "/c2b/register"
         /\ BothSucceeded(r)
         /\ resp[r] = << [ status |-> 200, body |-> [ ResponseDescription |-> "Success" ] ] >>
    /\ \E r \in Reqs :
         /\ route[r] = "/stkpush"
         /\ Len(replies[r]) = 2
         /\ Failed(r)
         /\ Len(resp[r]) = 1
         /\ resp[r][1].status = 500

(* C4: under any interleaving, every /stkpush, /c2b/register and /token    *)
(* request makes exactly one GET to the token endpoint and /callback none; *)
(* the bearer of a request's gateway POST is the token its own exchange    *)
(* returned, and never a token that another request obtained.              *)
C4_FreshTokenPerRequest ==
    \A r \in Reqs :
        /\ route[r] \in Relayed => Gets(r) = 1
        /\ route[r] \notin Relayed => calls[r] = << >>
        /\ \A i \in CallsOf(r, "POST") :
             /\ TokenSucceeded(r)
             /\ calls[r][i].bearer = replies[r][1].access_token
             /\ \A q \in Reqs \ { r } :
                  TokenSucceeded(q) => calls[r][i].bearer # replies[q][1].access_token

C4_Witness ==
    \E r \in Reqs, q \in Reqs :
        /\ r # q
        /\ route[r] = "/stkpush" /\ route[q] = "/c2b/register"
        /\ Len(calls[r]) = 2 /\ Len(calls[q]) = 2
        /\ calls[q][2].bearer < calls[r][2].bearer
        /\ pc[q] = "await_post"

(* C5: on /stkpush, /c2b/register and /token, and for both error kinds,    *)
(* the `error` field of the 500 response carries the upstream's error body *)
(* whenever the upstream returned one, and the generic message only when   *)
(* there is no upstream body.                                              *)
C5_ErrorCarriesUpstreamBody ==
    \A r \in Reqs :
        (route[r] \in Relayed /\ pc[r] = "done" /\ Failed(r)) =>
            /\ Len(resp[r]) = 1
            /\ resp[r][1].status = 500
            /\ resp[r][1].body.error =
                 (IF HasUpstreamBody(Failure(r)) THEN Failure(r).data
                                                 ELSE Failure(r).message)

(* C6: the payload of every /stkpush POST has Amount = amount, PartyA =    *)
(* PhoneNumber = phone, BusinessShortCode = PartyB = the configured        *)
(* shortcode, TransactionType = "CustomerPayBillOnline", and               *)
(* AccountReference / TransactionDesc equal to the supplied                *)
(* accountReference / description, or "BOOK" / "Hotel booking" when the    *)
(* field is omitted from the body.                                         *)
C6_PayloadFields ==
    \A c \in PushCalls :
        LET p == calls[c[1]][c[2]].payload
            b == body[c[1]]
        IN  /\ p.Amount = b.amount
            /\ p.PartyA = b.phone /\ p.PhoneNumber = b.phone
            /\ p.BusinessShortCode = env.SHORTCODE /\ p.PartyB = env.SHORTCODE
            /\ p.TransactionType = "CustomerPayBillOnline"
            /\ p.AccountReference =
                 (IF b.accountReference = Undefined THEN "BOOK" ELSE b.accountReference)
            /\ p.TransactionDesc =
                 (IF b.description = Undefined THEN "Hotel booking" ELSE b.description)

C6_Witness ==
    \E c \in PushCalls :
        LET p == calls[c[1]][c[2]].payload
        IN  /\ body[c[1]] = StkBody("100", "254712345678", Undefined, Undefined)
            /\ p.AccountReference = "BOOK" /\ p.TransactionDesc = "Hotel booking"
            /\ p.Amount = "100" /\ p.PartyA = "254712345678"

(* C7: in every /stkpush payload, base64-decoding Password yields exactly  *)
(* BusinessShortCode followed by the passkey and by the payload's own      *)
(* Timestamp.                                                              *)
C7_PasswordRoundTrip ==
    \A c \in PushCalls :
        LET p == calls[c[1]][c[2]].payload
        IN  Base64Decode(p.Password) = p.BusinessShortCode \o env.PASSKEY \o p.Timestamp

\* shortcode "174379", passkey "test", timestamp "20240101120000"
C7_Witness ==
    \E c \in PushCalls :
        LET p == calls[c[1]][c[2]].payload
        IN  /\ env.PASSKEY = PasskeyTest
            /\ p.BusinessShortCode = Shortcode174379
            /\ p.Timestamp = << 50, 48, 50, 52, 48, 49, 48, 49, 49, 50, 48, 48, 48, 48 >>
            /\ Len(p.Password) = 32

(* C8: Timestamp is exactly 14 characters, all decimal digits, and is      *)
(* YYYYMMDDHHMMSS of the UTC year, month, day, hour, minute and second of  *)
(* the instant the payload was built at, the milliseconds dropped.         *)
C8_TimestampFormat ==
    \A c \in PushCalls :
        LET ts == calls[c[1]][c[2]].payload.Timestamp
        IN  /\ Len(ts) = 14
            /\ \A i \in 1..Len(ts) : IsDigit(ts[i])
            /\ ts = FourteenDigits(clock[c[1]])

\* 2024-02-29T23:59:59.999Z gives "20240229235959"
C8_Witness ==
    \E c \in PushCalls :
        /\ clock[c[1]] = Civil(2024, 2, 29, 23, 59, 59, 999)
        /\ calls[c[1]][c[2]].payload.Timestamp =
               << 50, 48, 50, 52, 48, 50, 50, 57, 50, 51, 53, 57, 53, 57 >>

(* C9: /c2b/register validates nothing locally: with confirmationURL or    *)
(* validationURL missing the handler still makes the token exchange and,   *)
(* with the token, still POSTs to registerurl with ShortCode = the         *)
(* shortcode, ResponseType = "Completed" and the missing field undefined;  *)
(* it answers 500 only after an upstream failure.                          *)
C9_NoLocalValidation ==
    \A r \in Reqs :
        route[r] = "/c2b/register" =>
            /\ Gets(r) = 1
            /\ TokenSucceeded(r) =>
                 /\ Posts(r) = 1
                 /\ calls[r][2].path = "/mpesa/c2b/v1/registerurl"
                 /\ calls[r][2].payload =
                      [ ShortCode |-> env.SHORTCODE, ResponseType |-> "Completed",
                        ConfirmationURL |-> body[r].confirmationURL,
                        ValidationURL |-> body[r].validationURL ]
            /\ \A i \in 1..Len(resp[r]) : resp[r][i].status # 200 => Failed(r)

C9_Witness ==
    \E r \in Reqs :
        /\ route[r] = "/c2b/register"
        /\ body[r].confirmationURL = Undefined
        /\ Posts(r) = 1
        /\ calls[r][2].payload.ConfirmationURL = Undefined
        /\ Len(resp[r]) = 1
        /\ resp[r][1].status = 200

\* The call chain of a relayed request: GET, then POST, one answer
C10_OneCallChain ==
    \A r \in Reqs :
        route[r] \in Relayed =>
            /\ Len(resp[r]) <= 1
            /\ Gets(r) <= 1 /\ Posts(r) <= 1
            /\ \A i \in CallsOf(r, "POST") : i = 2 /\ calls[r][1].method = "GET"
            /\ Len(replies[r]) <= Len(calls[r])
            /\ Failed(r) => Len(calls[r]) = Len(replies[r]) /\ pc[r] = "done"
            /\ resp[r] # << >> <=> pc[r] = "done"

(* C10: when every outbound call it makes completes, a request to          *)
(* /stkpush, /c2b/register or /token is eventually answered, and answered  *)
(* exactly once; it makes at most one token GET followed by at most one    *)
(* gateway POST and nothing after a failure or after its answer.           *)
C10_ExactlyOneResponse ==
    /\ [] C10_OneCallChain
    /\ [][\A r \in Reqs : pc[r] = "done" => (calls'[r] = calls[r] /\ resp'[r] = resp[r])]_vars
    /\ \A r \in Reqs : (route[r] \in Relayed) ~> (Len(resp[r]) = 1)

C10_Witness ==
    \E r \in Reqs :
        /\ route[r] = "/stkpush"
        /\ Len(calls[r]) = 2
        /\ Failed(r)
        /\ Len(resp[r]) = 1

=============================================================================
